---- MODULE Spec2Model ----
(***************************************************************************)
(* Model of the generateImage request handler of src/src/routes/generate.js *)
(* and of its size-targeting JPEG re-encode loop.                           *)
(*                                                                         *)
(* A request runs to completion between its await points, so the handler   *)
(* is three steps: Start (validation up to the await of the external       *)
(* model), ModelReturns (the model's answer up to the await of the first   *)
(* encode) and EncodeReturns (one loop iteration, and after the last one   *)
(* the final validation and the response).                                 *)
(***************************************************************************)
EXTENDS Integers, Sequences, FiniteSets, TLC

(* ------------------------------ bounds --------------------------------- *)

\* number of requests in flight in the interleaved specification
NumReqs == 2

\* thresholds of the piecewise-constant encoders (width and quality bands)
WidthSplit == 3000
QualitySplit == 90

Reqs == 1..NumReqs

(* ------------------------- program constants --------------------------- *)

MIN_SIZE == 1 * 1024 * 1024
MAX_SIZE == 3 * 1024 * 1024

START_WIDTH == 2800
START_QUALITY == 94
MAX_ITER == 25
WIDTH_STEP == 250
QUALITY_STEP_UP == 2
QUALITY_CEILING == 98
QUALITY_THRESHOLD == 85
QUALITY_STEP_DOWN == 4
QUALITY_FLOOR == 80
WIDTH_FLOOR == 2000

Min(a, b) == IF a < b THEN a ELSE b

(* ------------------------- request validation -------------------------- *)

\* String.prototype.toLowerCase on the letters the pose texts use
ToLowerCase(s) ==
  [n \in 1..Len(s) |->
     CASE s[n] = "B" -> "b"
       [] s[n] = "A" -> "a"
       [] s[n] = "C" -> "c"
       [] s[n] = "K" -> "k"
       [] s[n] = "R" -> "r"
       [] s[n] = "E" -> "e"
       [] OTHER -> s[n]]

\* String.prototype.includes
Includes(s, sub) ==
  \E n \in 1..(Len(s) - Len(sub) + 1) : SubSeq(s, n, n + Len(sub) - 1) = sub

\* String.prototype.trim() !== "" on texts whose only blank is the space
present(v) == \E n \in 1..Len(v) : v[n] # " "

\* (attributes.pose || "") + " " + (attributes.poseNote || "")
poseText(raw) ==
  (IF present(raw.pose) THEN raw.pose ELSE <<>>) \o <<" ">> \o
  (IF present(raw.poseNote) THEN raw.poseNote ELSE <<>>)

\* variant: the pose text is searched as typed, without toLowerCase
IsBackPose_CaseSensitive(raw) ==
  \/ Includes(poseText(raw), <<"b", "a", "c", "k">>)
  \/ Includes(poseText(raw), <<"r", "e", "a", "r">>)

\* poseText.toLowerCase().includes("back") || poseText.toLowerCase().includes("rear")
IsBackPose(raw) ==
  \/ Includes(ToLowerCase(poseText(raw)), <<"b", "a", "c", "k">>)
  \/ Includes(ToLowerCase(poseText(raw)), <<"r", "e", "a", "r">>)

\* raw.generationMode || "POSE_BASED"
genMode(raw) == IF raw.generationMode = "" THEN "POSE_BASED" ELSE raw.generationMode

\* variant: the primary-image check comes before the mode check
ValidationError_FileFirst(raw) ==
  IF ~raw.hasFile
    THEN "Reference image is required."
  ELSE IF genMode(raw) = "MODEL_REFERENCE_BASED" /\ ~raw.hasSecondary
    THEN "Model reference image is required for this mode."
  ELSE IF IsBackPose(raw) /\ ~raw.hasSecondary
    THEN "Back pose requires SECOND reference image of same saree."
  ELSE ""

\* variant: the back-pose check is missing
ValidationError_NoBackPoseCheck(raw) ==
  IF genMode(raw) = "MODEL_REFERENCE_BASED" /\ ~raw.hasSecondary
    THEN "Model reference image is required for this mode."
  ELSE IF ~raw.hasFile
    THEN "Reference image is required."
  ELSE ""

\* the error of the first failing check, "" when the request is accepted
ValidationError(raw) ==
  IF genMode(raw) = "MODEL_REFERENCE_BASED" /\ ~raw.hasSecondary
    THEN "Model reference image is required for this mode."
  ELSE IF ~raw.hasFile
    THEN "Reference image is required."
  ELSE IF IsBackPose(raw) /\ ~raw.hasSecondary
    THEN "Back pose requires SECOND reference image of same saree."
  ELSE ""

PoseTexts == { <<>>, <<"s", "i", "t">>, <<"B", "a", "c", "k">> }
PoseNotes == { <<>>, <<"r", "e", "a", "R">> }
GenModes == { "", "POSE_BASED", "MODEL_REFERENCE_BASED" }

Requests ==
  [generationMode : GenModes, hasFile : BOOLEAN, hasSecondary : BOOLEAN,
   pose : PoseTexts, poseNote : PoseNotes]

NoRequest ==
  [generationMode |-> "", hasFile |-> FALSE, hasSecondary |-> FALSE,
   pose |-> <<>>, poseNote |-> <<>>]

(* ------------------------------ encoder -------------------------------- *)
(* The image the external model returns is the source of every encode.     *)
(* sharp is deterministic: the JPEG size is a function of the source, the  *)
(* width and the quality.  A source is one of                              *)
(*   grid    : size constant on each of four (width, quality) bands,       *)
(*             any of the boundary sizes on each band (not monotone in     *)
(*             general);                                                   *)
(*   linear  : size = k * width * quality (monotone);                      *)
(*   step    : size jumps from below minBytes to above maxBytes where both *)
(*             width and quality reach their split, and is in range only   *)
(*             at low width and quality k or more (monotone);              *)
(*   corrupt : sharp rejects the bytes.                                    *)

Bands == {0, 1} \X {0, 1}
BandSizes == { MIN_SIZE - 1, MIN_SIZE, MAX_SIZE, MAX_SIZE + 1 }
Complexities == { 1, 3, 8, 12, 19, 100 }

ZeroCells == [b \in Bands |-> 0]

GridImages == { [kind |-> "grid", k |-> 0, cells |-> f] : f \in [Bands -> BandSizes] }
LinearImages == { [kind |-> "linear", k |-> c, cells |-> ZeroCells] : c \in Complexities }
StepImages == { [kind |-> "step", k |-> c, cells |-> ZeroCells] : c \in {96, 98} }
CorruptImage == [kind |-> "corrupt", k |-> 0, cells |-> ZeroCells]
NoImage == [kind |-> "none", k |-> 0, cells |-> ZeroCells]

Images == GridImages \cup LinearImages \cup StepImages \cup {CorruptImage}

BandOf(w, q) ==
  << IF w < WidthSplit THEN 0 ELSE 1, IF q < QualitySplit THEN 0 ELSE 1 >>

\* sharp(...).toBuffer() resolves for every source but the corrupt one
Decodable(img) == img.kind \in {"grid", "linear", "step"}

\* jpgBuffer.length of sharp(img).resize({width: w}).jpeg({quality: q})
SizeOf(img, w, q) ==
  CASE img.kind = "linear" -> img.k * w * q
    [] img.kind = "step" ->
         IF BandOf(w, q) = <<1, 1>> THEN MAX_SIZE + 1
         ELSE IF q >= img.k THEN MIN_SIZE
         ELSE MIN_SIZE - 1
    [] OTHER -> img.cells[BandOf(w, q)]

NoBuffer == [src |-> NoImage, width |-> 0, quality |-> 0, size |-> 0]

\* variant: from the second iteration on the previous JPEG output is
\* re-encoded (a JPEG re-encodes to about its own size at any parameters)
EncodeSource_Previous(png, jpg) ==
  IF jpg.size = 0
    THEN png
    ELSE [kind |-> "grid", k |-> 0, cells |-> [b \in Bands |-> jpg.size]]

\* sharp(pngBuffer): the buffer an iteration hands to the encoder, given the
\* model's image png and the previous iteration's output jpg
EncodeSource(png, jpg) == png

\* the JPEG bytes: determined by the source and the encode parameters
Encode(img, w, q) ==
  [src |-> img, width |-> w, quality |-> q, size |-> SizeOf(img, w, q)]

(* ----------------------- the external model's answer ------------------ *)

\* a content part of response.candidates[0].content.parts: text, or inline
\* image data
TextPart == [text |-> TRUE, inlineData |-> NoImage]
ImagePart(img) == [text |-> FALSE, inlineData |-> img]

\* answers without image data: no candidate or no part, or text only
NoImageResponses == { <<>>, << TextPart >> }

\* an answer with image img: a text part, then the image part
ImageResponse(img) == << TextPart, ImagePart(img) >>

NoResponse == [received |-> FALSE, parts |-> <<>>]

\* for (const part of parts) if (part.inlineData?.data) { imageBase64 = ...; break }
FirstInlineData(ps) ==
  IF \E n \in 1..Len(ps) : ps[n].inlineData # NoImage
    THEN ps[CHOOSE n \in 1..Len(ps) :
              /\ ps[n].inlineData # NoImage
              /\ \A m \in 1..(n - 1) : ps[m].inlineData = NoImage].inlineData
    ELSE NoImage

(* --------------------------- re-encode loop ---------------------------- *)

\* variant: the upper bound of the success test is dropped
InRange_NoUpper(size) == size >= MIN_SIZE

\* variant: the success test excludes the two boundary sizes
InRange_Strict(size) == size > MIN_SIZE /\ size < MAX_SIZE

\* size >= MIN_SIZE && size <= MAX_SIZE
InRange(size) == size >= MIN_SIZE /\ size <= MAX_SIZE

\* variant: the quality step of the undersized branch is not capped
TooSmall_NoCap(size, w, q) ==
  IF size < MIN_SIZE
    THEN [width |-> w + WIDTH_STEP, quality |-> q + QUALITY_STEP_UP]
    ELSE [width |-> w, quality |-> q]

\* variant: the undersized branch steps the width down instead of up
TooSmall_Shrinks(size, w, q) ==
  IF size < MIN_SIZE
    THEN [width |-> w - WIDTH_STEP,
          quality |-> Min(q + QUALITY_STEP_UP, QUALITY_CEILING)]
    ELSE [width |-> w, quality |-> q]

\* if (size < MIN_SIZE) { width += 250; quality = Math.min(quality + 2, 98) }
TooSmall(size, w, q) ==
  IF size < MIN_SIZE
    THEN [width |-> w + WIDTH_STEP,
          quality |-> Min(q + QUALITY_STEP_UP, QUALITY_CEILING)]
    ELSE [width |-> w, quality |-> q]

\* variant: the oversized branch lowers the width along with the quality
TooBig_Both(size, w, q) ==
  IF size > MAX_SIZE
    THEN IF q > QUALITY_THRESHOLD
           THEN [width |-> w - WIDTH_STEP, quality |-> q - QUALITY_STEP_DOWN]
           ELSE [width |-> w - WIDTH_STEP, quality |-> q]
    ELSE [width |-> w, quality |-> q]

\* variant: at the width floor the oversized branch falls back to lowering
\* the quality
TooBig_FloorFallback(size, w, q) ==
  IF size > MAX_SIZE
    THEN IF q > QUALITY_THRESHOLD \/ w <= WIDTH_FLOOR
           THEN [width |-> w, quality |-> q - QUALITY_STEP_DOWN]
           ELSE [width |-> w - WIDTH_STEP, quality |-> q]
    ELSE [width |-> w, quality |-> q]

\* variant: the oversized branch lowers the quality down to the quality floor
TooBig_ThresholdAtFloor(size, w, q) ==
  IF size > MAX_SIZE
    THEN IF q > QUALITY_FLOOR
           THEN [width |-> w, quality |-> q - QUALITY_STEP_DOWN]
           ELSE [width |-> w - WIDTH_STEP, quality |-> q]
    ELSE [width |-> w, quality |-> q]

\* variant: the width step of the oversized branch is missing
TooBig_NoWidthStep(size, w, q) ==
  IF size > MAX_SIZE /\ q > QUALITY_THRESHOLD
    THEN [width |-> w, quality |-> q - QUALITY_STEP_DOWN]
    ELSE [width |-> w, quality |-> q]

\* if (size > MAX_SIZE) { if (quality > 85) quality -= 4; else width -= 250 }
TooBig(size, w, q) ==
  IF size > MAX_SIZE
    THEN IF q > QUALITY_THRESHOLD
           THEN [width |-> w, quality |-> q - QUALITY_STEP_DOWN]
           ELSE [width |-> w - WIDTH_STEP, quality |-> q]
    ELSE [width |-> w, quality |-> q]

\* variant: the width floor is left out of the hard limits
HardLimits_NoWidthFloor(w, q) ==
  [width |-> w,
   quality |-> IF q < QUALITY_FLOOR THEN QUALITY_FLOOR ELSE q]

\* if (quality < 80) quality = 80; if (width < 2000) width = 2000
HardLimits(w, q) ==
  [width |-> IF w < WIDTH_FLOOR THEN WIDTH_FLOOR ELSE w,
   quality |-> IF q < QUALITY_FLOOR THEN QUALITY_FLOOR ELSE q]

\* variant: the break on success is missing
Iteration_NoBreak(size, w, q) ==
  LET a == TooSmall(size, w, q)
      b == TooBig(size, a.width, a.quality)
      c == HardLimits(b.width, b.quality)
  IN  [brk |-> FALSE, width |-> c.width, quality |-> c.quality]

\* the body of one iteration after the encode: break on success, else the
\* two directional adjustments in program order and then the hard limits
Iteration(size, w, q) ==
  IF InRange(size)
    THEN [brk |-> TRUE, width |-> w, quality |-> q]
    ELSE LET a == TooSmall(size, w, q)
             b == TooBig(size, a.width, a.quality)
             c == HardLimits(b.width, b.quality)
         IN  [brk |-> FALSE, width |-> c.width, quality |-> c.quality]

\* variant: the loop bound is off by one
LoopContinues_OffByOne(i) == i <= MAX_ITER

\* for (let i = 0; i < 25; i++)
LoopContinues(i) == i < MAX_ITER

\* variant: the final validation forgets the lower bound
FinalFailed_OnlyUpper(finalSize) == finalSize > MAX_SIZE

\* variant: the final validation forgets the upper bound
FinalFailed_OnlyLower(finalSize) == finalSize < MIN_SIZE

\* variant: the final validation joins its two tests with && instead of ||
FinalFailed_And(finalSize) == finalSize < MIN_SIZE /\ finalSize > MAX_SIZE

\* if (finalSize < MIN_SIZE || finalSize > MAX_SIZE)
FinalFailed(finalSize) == finalSize < MIN_SIZE \/ finalSize > MAX_SIZE

\* (size / (1024 * 1024)).toFixed(2), as a number of hundredths of a MB
\* (toFixed rounds to the nearest hundredth, a tie upwards):
\* floor(100 * size / 2^20 + 1/2), with the fraction reduced by 8
ToFixed2(size) == (25 * size + 131072) \div 262144

(* ------------------------------ responses ------------------------------ *)

Response(status, error, buf, w, q, raw) ==
  [status |-> status, error |-> error, image |-> buf,
   finalSizeMB |-> IF status = 200 THEN ToFixed2(buf.size) ELSE 0,
   finalWidth |-> w, finalQuality |-> q,
   hasSecondaryImage |-> status = 200 /\ raw.hasSecondary,
   generationMode |-> IF status = 200 THEN genMode(raw) ELSE ""]

ErrorResponse(status, error) ==
  Response(status, error, NoBuffer, 0, 0, NoRequest)

NoLog == [sizeMB |-> 0, width |-> 0, quality |-> 0]

(* -------------------------------- state -------------------------------- *)

VARIABLES
  pc,          \* per request: "idle", "awaitModel", "awaitEncode", "done"
  req,         \* per request: the files and form fields received
  modelCalls,  \* per request: calls of genAI.models.generateContent
  modelResponse, \* per request: the content parts the external model answered with
  pngBuffer,   \* per request: the image the external model returned
  width,       \* per request: the loop's width
  quality,     \* per request: the loop's quality
  i,           \* per request: the loop counter
  jpgBuffer,   \* per request: the latest encode result
  encodeCalls, \* per request: calls of sharp(...).toBuffer()
  attempts,    \* per request: the completed encodes, in order
  errorLog,    \* per request: the object of console.error("Image size lock failed")
  responses    \* per request: the responses sent, in order

vars == << pc, req, modelCalls, modelResponse, pngBuffer, width, quality, i, jpgBuffer,
           encodeCalls, attempts, errorLog, responses >>

Init ==
  /\ pc = [r \in Reqs |-> "idle"]
  /\ req = [r \in Reqs |-> NoRequest]
  /\ modelCalls = [r \in Reqs |-> 0]
  /\ modelResponse = [r \in Reqs |-> NoResponse]
  /\ pngBuffer = [r \in Reqs |-> NoImage]
  /\ width = [r \in Reqs |-> 0]
  /\ quality = [r \in Reqs |-> 0]
  /\ i = [r \in Reqs |-> 0]
  /\ jpgBuffer = [r \in Reqs |-> NoBuffer]
  /\ encodeCalls = [r \in Reqs |-> 0]
  /\ attempts = [r \in Reqs |-> <<>>]
  /\ errorLog = [r \in Reqs |-> NoLog]
  /\ responses = [r \in Reqs |-> <<>>]

(* ------------------------------- actions ------------------------------- *)

\* variant: the 400 response is sent without returning, so the handler goes
\* on to the external call
Start_NoReturn(r, raw) ==
  /\ pc[r] = "idle"
  /\ req' = [req EXCEPT ![r] = raw]
  /\ IF ValidationError(raw) # ""
       THEN responses' = [responses EXCEPT
              ![r] = Append(@, ErrorResponse(400, ValidationError(raw)))]
       ELSE UNCHANGED responses
  /\ modelCalls' = [modelCalls EXCEPT ![r] = @ + 1]
  /\ pc' = [pc EXCEPT ![r] = "awaitModel"]
  /\ UNCHANGED << modelResponse, pngBuffer, width, quality, i, jpgBuffer,
                  encodeCalls, attempts, errorLog >>

\* the handler is entered with request raw: validation, then either a 400
\* response or the call of the external model
Start(r, raw) ==
  /\ pc[r] = "idle"
  /\ req' = [req EXCEPT ![r] = raw]
  /\ IF ValidationError(raw) # ""
       THEN /\ responses' = [responses EXCEPT
                 ![r] = Append(@, ErrorResponse(400, ValidationError(raw)))]
            /\ pc' = [pc EXCEPT ![r] = "done"]
            /\ UNCHANGED modelCalls
       ELSE /\ modelCalls' = [modelCalls EXCEPT ![r] = @ + 1]
            /\ pc' = [pc EXCEPT ![r] = "awaitModel"]
            /\ UNCHANGED responses
  /\ UNCHANGED << modelResponse, pngBuffer, width, quality, i, jpgBuffer,
                  encodeCalls, attempts, errorLog >>

\* the external call rejects: the catch block answers
ModelThrows(r) ==
  /\ pc[r] = "awaitModel"
  /\ responses' = [responses EXCEPT
       ![r] = Append(@, ErrorResponse(500, "Failed to generate image."))]
  /\ pc' = [pc EXCEPT ![r] = "done"]
  /\ UNCHANGED << req, modelCalls, modelResponse, pngBuffer, width, quality, i,
                  jpgBuffer, encodeCalls, attempts, errorLog >>

\* variant: the 500 response for a missing image is sent without returning,
\* so the handler goes on to the loop
ModelReturnsNoImage_NoReturn(r) ==
  /\ pc[r] = "awaitModel"
  /\ \E ps \in NoImageResponses :
       /\ FirstInlineData(ps) = NoImage
       /\ modelResponse' = [modelResponse EXCEPT ![r] = [received |-> TRUE, parts |-> ps]]
  /\ responses' = [responses EXCEPT
       ![r] = Append(@, ErrorResponse(500, "No image returned from Gemini."))]
  /\ width' = [width EXCEPT ![r] = START_WIDTH]
  /\ quality' = [quality EXCEPT ![r] = START_QUALITY]
  /\ i' = [i EXCEPT ![r] = 0]
  /\ encodeCalls' = [encodeCalls EXCEPT ![r] = @ + 1]
  /\ pc' = [pc EXCEPT ![r] = "awaitEncode"]
  /\ UNCHANGED << req, modelCalls, pngBuffer, jpgBuffer, attempts, errorLog >>

\* the external call resolves without inline image data
ModelReturnsNoImage(r) ==
  /\ pc[r] = "awaitModel"
  /\ \E ps \in NoImageResponses :
       /\ FirstInlineData(ps) = NoImage
       /\ modelResponse' = [modelResponse EXCEPT ![r] = [received |-> TRUE, parts |-> ps]]
  /\ responses' = [responses EXCEPT
       ![r] = Append(@, ErrorResponse(500, "No image returned from Gemini."))]
  /\ pc' = [pc EXCEPT ![r] = "done"]
  /\ UNCHANGED << req, modelCalls, pngBuffer, width, quality, i, jpgBuffer,
                  encodeCalls, attempts, errorLog >>

\* variant: width and quality live outside the handler, so an invocation
\* starts from what another invocation left in them
ModelReturns_SharedStart(r, img) ==
  /\ pc[r] = "awaitModel"
  /\ FirstInlineData(ImageResponse(img)) # NoImage
  /\ modelResponse' = [modelResponse EXCEPT
       ![r] = [received |-> TRUE, parts |-> ImageResponse(img)]]
  /\ pngBuffer' = [pngBuffer EXCEPT ![r] = FirstInlineData(ImageResponse(img))]
  /\ LET others == { o \in Reqs \ {r} : encodeCalls[o] > 0 }
         o == CHOOSE x \in others : TRUE
     IN  /\ width' = [width EXCEPT ![r] = IF others = {} THEN START_WIDTH ELSE width[o]]
         /\ quality' = [quality EXCEPT ![r] = IF others = {} THEN START_QUALITY ELSE quality[o]]
  /\ i' = [i EXCEPT ![r] = 0]
  /\ encodeCalls' = [encodeCalls EXCEPT ![r] = @ + 1]
  /\ pc' = [pc EXCEPT ![r] = "awaitEncode"]
  /\ UNCHANGED << req, modelCalls, jpgBuffer, attempts, errorLog, responses >>

\* the external call resolves with image img among its parts: the image is
\* extracted, the loop is set up and its first encode is issued
ModelReturns(r, img) ==
  /\ pc[r] = "awaitModel"
  /\ FirstInlineData(ImageResponse(img)) # NoImage
  /\ modelResponse' = [modelResponse EXCEPT
       ![r] = [received |-> TRUE, parts |-> ImageResponse(img)]]
  /\ pngBuffer' = [pngBuffer EXCEPT ![r] = FirstInlineData(ImageResponse(img))]
  /\ width' = [width EXCEPT ![r] = START_WIDTH]
  /\ quality' = [quality EXCEPT ![r] = START_QUALITY]
  /\ i' = [i EXCEPT ![r] = 0]
  /\ encodeCalls' = [encodeCalls EXCEPT ![r] = @ + 1]
  /\ pc' = [pc EXCEPT ![r] = "awaitEncode"]
  /\ UNCHANGED << req, modelCalls, jpgBuffer, attempts, errorLog, responses >>

\* variant: the rejected source is answered with the size-constraint error
EncodeThrows_AsSizeLock(r) ==
  /\ pc[r] = "awaitEncode"
  /\ ~Decodable(pngBuffer[r])
  /\ responses' = [responses EXCEPT
       ![r] = Append(@, ErrorResponse(500,
                "Failed to generate image within 1-3 MB size constraints"))]
  /\ pc' = [pc EXCEPT ![r] = "done"]
  /\ UNCHANGED << req, modelCalls, modelResponse, pngBuffer, width, quality, i,
                  jpgBuffer, encodeCalls, attempts, errorLog >>

\* sharp rejects the source: the catch block answers
EncodeThrows(r) ==
  /\ pc[r] = "awaitEncode"
  /\ ~Decodable(pngBuffer[r])
  /\ responses' = [responses EXCEPT
       ![r] = Append(@, ErrorResponse(500, "Failed to generate image."))]
  /\ pc' = [pc EXCEPT ![r] = "done"]
  /\ UNCHANGED << req, modelCalls, modelResponse, pngBuffer, width, quality, i,
                  jpgBuffer, encodeCalls, attempts, errorLog >>

\* the awaited encode resolves: the rest of the iteration, then either the
\* next iteration's encode or the final validation and the response
EncodeReturns(r) ==
  /\ pc[r] = "awaitEncode"
  /\ Decodable(pngBuffer[r])
  /\ LET buf == Encode(EncodeSource(pngBuffer[r], jpgBuffer[r]), width[r], quality[r])
         it == Iteration(buf.size, width[r], quality[r])
         n == IF it.brk THEN i[r] ELSE i[r] + 1
         again == ~it.brk /\ LoopContinues(n)
     IN  /\ jpgBuffer' = [jpgBuffer EXCEPT ![r] = buf]
         /\ attempts' = [attempts EXCEPT ![r] = Append(@, buf)]
         /\ width' = [width EXCEPT ![r] = it.width]
         /\ quality' = [quality EXCEPT ![r] = it.quality]
         /\ i' = [i EXCEPT ![r] = n]
         /\ IF again
              THEN /\ encodeCalls' = [encodeCalls EXCEPT ![r] = @ + 1]
                   /\ UNCHANGED << pc, errorLog, responses >>
              ELSE /\ pc' = [pc EXCEPT ![r] = "done"]
                   /\ UNCHANGED encodeCalls
                   /\ IF FinalFailed(buf.size)
                        THEN /\ errorLog' = [errorLog EXCEPT ![r] =
                                  [sizeMB |-> ToFixed2(buf.size),
                                   width |-> it.width,
                                   quality |-> it.quality]]
                             /\ responses' = [responses EXCEPT ![r] =
                                  Append(@, ErrorResponse(500,
                                    "Failed to generate image within 1-3 MB size constraints"))]
                        ELSE /\ responses' = [responses EXCEPT ![r] =
                                  Append(@, Response(200, "", buf, it.width,
                                                     it.quality, req[r]))]
                             /\ UNCHANGED errorLog
  /\ UNCHANGED << req, modelCalls, modelResponse, pngBuffer >>

(* ------------------------- one invocation alone ------------------------ *)

\* the loop of lines 1370-1414 run without interruption from counter n on:
\* the encodes it completes and the width and quality it leaves
RECURSIVE SoloLoop(_, _, _, _)
SoloLoop(img, w, q, n) ==
  IF ~LoopContinues(n)
    THEN [attempts |-> <<>>, width |-> w, quality |-> q]
    ELSE LET buf == Encode(img, w, q)
             it == Iteration(buf.size, w, q)
             rest == SoloLoop(img, it.width, it.quality, n + 1)
         IN  IF it.brk
               THEN [attempts |-> << buf >>, width |-> w, quality |-> q]
               ELSE [attempts |-> << buf >> \o rest.attempts,
                     width |-> rest.width, quality |-> rest.quality]

\* the encodes of an invocation that runs alone on source img
SoloAttempts(img) ==
  IF Decodable(img) THEN SoloLoop(img, START_WIDTH, START_QUALITY, 0).attempts
                    ELSE <<>>

\* the response of an invocation that runs alone on request raw and source img
SoloResponse(raw, img) ==
  IF ~Decodable(img)
    THEN ErrorResponse(500, "Failed to generate image.")
    ELSE LET run == SoloLoop(img, START_WIDTH, START_QUALITY, 0)
             buf == run.attempts[Len(run.attempts)]
         IN  IF FinalFailed(buf.size)
               THEN ErrorResponse(500,
                      "Failed to generate image within 1-3 MB size constraints")
               ELSE Response(200, "", buf, run.width, run.quality, raw)

(* ---------------------------- specifications --------------------------- *)

\* one request, every request and every source image
Next ==
  \/ \E raw \in Requests : Start(1, raw)
  \/ ModelThrows(1)
  \/ ModelReturnsNoImage(1)
  \/ \E img \in Images : ModelReturns(1, img)
  \/ EncodeThrows(1)
  \/ EncodeReturns(1)

Spec == Init /\ [][Next]_vars

\* the same handler under the scheduling the runtime guarantees: a pending
\* encode promise settles
FairSpec ==
  Spec /\ WF_vars(EncodeReturns(1)) /\ WF_vars(EncodeThrows(1))

\* several requests interleaved at their await points, on a small family
\* of requests and source images
PairRequests ==
  { [generationMode |-> "", hasFile |-> TRUE, hasSecondary |-> FALSE,
     pose |-> <<>>, poseNote |-> <<>>],
    [generationMode |-> "MODEL_REFERENCE_BASED", hasFile |-> TRUE,
     hasSecondary |-> FALSE, pose |-> <<>>, poseNote |-> <<>>] }

PairImages ==
  { [kind |-> "linear", k |-> c, cells |-> ZeroCells] : c \in {3, 12, 19, 100} }

NextPair ==
  \E r \in Reqs :
    \/ \E raw \in PairRequests : Start(r, raw)
    \/ ModelThrows(r)
    \/ ModelReturnsNoImage(r)
    \/ \E img \in PairImages \cup {CorruptImage} : ModelReturns(r, img)
    \/ EncodeThrows(r)
    \/ EncodeReturns(r)

SpecPair == Init /\ [][NextPair]_vars

(* ------------------------------ properties ----------------------------- *)

Last(s) == s[Len(s)]

\* the target range of the claims: 1 MiB .. 3 MiB inclusive
WithinTarget(size) == 1048576 <= size /\ size <= 3145728

SizeLockError == "Failed to generate image within 1-3 MB size constraints"

\* the loop of request r has ended normally (not by an exception)
LoopExited(r) == pc[r] = "done" /\ attempts[r] # <<>>

\* C1: a success response always carries JPEG bytes of a size within
\* [1048576, 3145728]; when the loop ends on an out-of-range result the one
\* response is the size-constraint error and carries no image.
C1_NoOutOfRangeOutput ==
  \A r \in Reqs :
    /\ \A n \in 1..Len(responses[r]) :
         /\ responses[r][n].status = 200 =>
              WithinTarget(responses[r][n].image.size)
         /\ responses[r][n].status # 200 =>
              responses[r][n].image = NoBuffer /\ responses[r][n].error # ""
    /\ (LoopExited(r) /\ ~WithinTarget(jpgBuffer[r].size)) =>
         responses[r] = << ErrorResponse(500, SizeLockError) >>

C1_Witness ==
  \E r \in Reqs :
    /\ LoopExited(r) /\ Len(attempts[r]) > 1
    /\ Len(responses[r]) = 1
    /\ responses[r][1].status = 200
    /\ responses[r][1].image.size = 1048576

\* C2: when the loop has exited, exactly one of (a) the latest encode result
\* is in range, (b) 25 encodes were performed and every one of them was out
\* of range; in case (b) the request is answered with the failure.
C2_LoopExitCases ==
  \A r \in Reqs :
    LoopExited(r) =>
      LET a == jpgBuffer[r] = Last(attempts[r]) /\ WithinTarget(jpgBuffer[r].size)
          b == /\ Len(attempts[r]) = 25
               /\ encodeCalls[r] = 25
               /\ \A n \in 1..25 : ~WithinTarget(attempts[r][n].size)
      IN  /\ a # b
          /\ b => responses[r] = << ErrorResponse(500, SizeLockError) >>

C2_Witness ==
  \E r \in Reqs :
    /\ LoopExited(r)
    /\ Len(attempts[r]) = 25
    /\ jpgBuffer[r].size = 3145729
    /\ responses[r] = << ErrorResponse(500, SizeLockError) >>

\* C3: an invocation never performs more than 25 encodes, and a pending
\* encode always leads to the end of the invocation.
C3_BoundedSearch ==
  /\ [](\A r \in Reqs : encodeCalls[r] <= 25 /\ Len(attempts[r]) <= 25)
  /\ \A r \in Reqs : (pc[r] = "awaitEncode") ~> (pc[r] = "done")

C3_Witness ==
  \E r \in Reqs : pc[r] = "done" /\ encodeCalls[r] = 25 /\ Len(attempts[r]) = 25

\* the floor encoding (width 2000, quality 80) is the source's smallest
\* encoding and is larger than maxBytes
OversizedAtFloor(img) ==
  /\ Decodable(img)
  /\ SizeOf(img, 2000, 80) > 3145728
  /\ img.kind = "grid" =>
       \A b \in Bands : img.cells[b] >= SizeOf(img, 2000, 80)

\* C4: for a source oversized even at the floor width and floor quality the
\* invocation performs at most 25 encodes, never sends an image, and ends
\* with the convergence error.
C4_OversizedAtFloorFails ==
  \A r \in Reqs :
    OversizedAtFloor(pngBuffer[r]) =>
      /\ encodeCalls[r] <= 25
      /\ \A n \in 1..Len(responses[r]) : responses[r][n].status # 200
      /\ pc[r] = "done" => responses[r] = << ErrorResponse(500, SizeLockError) >>

C4_Witness ==
  \E r \in Reqs :
    /\ OversizedAtFloor(pngBuffer[r])
    /\ pc[r] = "done"
    /\ Last(attempts[r]).width = 2000
    /\ responses[r] = << ErrorResponse(500, SizeLockError) >>

\* C5: if the encode at (2800, 94) is in range, the invocation ends after
\* that one encode with a success carrying width 2800 and quality 94.
C5_FirstIterationSuccess ==
  \A r \in Reqs :
    (attempts[r] # <<>> /\ WithinTarget(SizeOf(pngBuffer[r], 2800, 94))) =>
      /\ pc[r] = "done"
      /\ encodeCalls[r] = 1
      /\ attempts[r] = << Encode(pngBuffer[r], 2800, 94) >>
      /\ Len(responses[r]) = 1
      /\ responses[r][1].status = 200
      /\ responses[r][1].image = Encode(pngBuffer[r], 2800, 94)
      /\ responses[r][1].finalWidth = 2800
      /\ responses[r][1].finalQuality = 94

C5_Witness ==
  \E r \in Reqs :
    /\ pc[r] = "done"
    /\ SizeOf(pngBuffer[r], 2800, 94) = 1048576
    /\ Len(attempts[r]) = 1
    /\ responses[r][1].status = 200

\* C6: in every iteration quality stays within [80, 98] and width stays at
\* or above 2000, whatever the direction of the adjustments.
C6_ClampBounds ==
  \A r \in Reqs :
    encodeCalls[r] > 0 =>
      /\ 80 <= quality[r] /\ quality[r] <= 98
      /\ width[r] >= 2000
      /\ \A n \in 1..Len(attempts[r]) :
           /\ 80 <= attempts[r][n].quality /\ attempts[r][n].quality <= 98
           /\ attempts[r][n].width >= 2000

\* the width floor acted: an oversized encode at width 2050 and quality at
\* most 85 is followed by width 2000, not 1800
C6_Witness ==
  \E r \in Reqs :
    \E n \in 1..Len(attempts[r]) :
      /\ attempts[r][n].width = 2050
      /\ attempts[r][n].size > 3145728
      /\ attempts[r][n].quality <= 85
      /\ (IF n < Len(attempts[r]) THEN attempts[r][n + 1].width ELSE width[r]) = 2000

\* C7: after an undersized encode the next iteration's width and quality
\* are not below those of the undersized encode.
C7_DirectionWhenUndersized ==
  \A r \in Reqs :
    \A n \in 1..Len(attempts[r]) :
      attempts[r][n].size < 1048576 =>
        LET nextWidth == IF n < Len(attempts[r]) THEN attempts[r][n + 1].width ELSE width[r]
            nextQuality == IF n < Len(attempts[r]) THEN attempts[r][n + 1].quality ELSE quality[r]
        IN  nextWidth >= attempts[r][n].width /\ nextQuality >= attempts[r][n].quality

C7_Witness ==
  \E r \in Reqs :
    \E n \in 1..(Len(attempts[r]) - 1) :
      /\ attempts[r][n].size < 1048576
      /\ attempts[r][n + 1].width > attempts[r][n].width
      /\ attempts[r][n + 1].quality = attempts[r][n].quality
      /\ attempts[r][n].quality = 98

\* C8: the diagnostics logged on a convergence failure carry the size, the
\* width and the quality of the last encode performed.
C8_FailureCarriesLastAttempt ==
  \A r \in Reqs :
    errorLog[r] # NoLog =>
      /\ errorLog[r].sizeMB = ToFixed2(Last(attempts[r]).size)
      /\ errorLog[r].width = Last(attempts[r]).width
      /\ errorLog[r].quality = Last(attempts[r]).quality

\* C9: a success response's finalWidth and finalQuality are the parameters
\* its bytes were encoded with, and its bytes are the last encode's output.
C9_SuccessParamsMatchBytes ==
  \A r \in Reqs :
    \A n \in 1..Len(responses[r]) :
      responses[r][n].status = 200 =>
        /\ responses[r][n].image = Last(attempts[r])
        /\ responses[r][n].image = Encode(pngBuffer[r], responses[r][n].finalWidth,
                                          responses[r][n].finalQuality)

C9_Witness ==
  \E r \in Reqs :
    /\ Len(responses[r]) = 1
    /\ responses[r][1].status = 200
    /\ Len(attempts[r]) > 2
    /\ responses[r][1].finalWidth # 2800
    /\ responses[r][1].finalQuality # 94

IsPrefix(s, t) == Len(s) <= Len(t) /\ SubSeq(t, 1, Len(s)) = s

\* what the re-encoder hands back: status, error, bytes, width and quality
Output(resp) ==
  << resp.status, resp.error, resp.image, resp.finalWidth, resp.finalQuality >>

\* C10: two invocations on the same source follow the same sequence of
\* (width, quality) attempts and end with the same output.
C10_Deterministic ==
  \A r1 \in Reqs : \A r2 \in Reqs :
    (pngBuffer[r1] # NoImage /\ pngBuffer[r1] = pngBuffer[r2]) =>
      /\ IsPrefix(attempts[r1], attempts[r2]) \/ IsPrefix(attempts[r2], attempts[r1])
      /\ (pc[r1] = "done" /\ pc[r2] = "done") =>
           /\ attempts[r1] = attempts[r2]
           /\ Len(responses[r1]) = Len(responses[r2])
           /\ \A n \in 1..Len(responses[r1]) :
                Output(responses[r1][n]) = Output(responses[r2][n])

C10_Witness ==
  \E r1 \in Reqs : \E r2 \in Reqs :
    /\ r1 # r2
    /\ pngBuffer[r1] = pngBuffer[r2]
    /\ pc[r1] = "done" /\ pc[r2] = "done"
    /\ Len(attempts[r1]) > 2
    /\ attempts[r1] = attempts[r2]
    /\ responses[r1][1].status = 200

\* C11: when the encoder rejects the source, the one encode call that was
\* made is the last one, no encode result exists, and the request is
\* answered once, with an error that is not the size-constraint error.
C11_DecodeErrorFatal ==
  \A r \in Reqs :
    (pngBuffer[r] # NoImage /\ ~Decodable(pngBuffer[r])) =>
      /\ encodeCalls[r] = 1
      /\ attempts[r] = <<>>
      /\ errorLog[r] = NoLog
      /\ pc[r] \in {"awaitEncode", "done"}
      /\ pc[r] = "done" =>
           /\ Len(responses[r]) = 1
           /\ responses[r][1].status = 500
           /\ responses[r][1].image = NoBuffer
           /\ responses[r][1].error = "Failed to generate image."
           /\ responses[r][1].error # SizeLockError

C11_Witness ==
  \E r \in Reqs :
    /\ pngBuffer[r] = CorruptImage
    /\ pc[r] = "done"
    /\ encodeCalls[r] = 1
    /\ responses[r] = << ErrorResponse(500, "Failed to generate image.") >>

\* C12: on the synthetic source size(w, q) = w * q * 100 every encode has
\* that size, at most 25 encodes are made, and the invocation ends either
\* with an in-range image or with the size-constraint error.
C12_SyntheticBoundary ==
  \A r \in Reqs :
    (pngBuffer[r].kind = "linear" /\ pngBuffer[r].k = 100) =>
      /\ encodeCalls[r] <= 25
      /\ Len(attempts[r]) <= 25
      /\ \A n \in 1..Len(attempts[r]) :
           attempts[r][n].size = attempts[r][n].width * attempts[r][n].quality * 100
      /\ attempts[r] # <<>> => attempts[r][1].width = 2800 /\ attempts[r][1].quality = 94
      /\ pc[r] = "done" =>
           /\ Len(responses[r]) = 1
           /\ \/ /\ responses[r][1].status = 200
                 /\ WithinTarget(responses[r][1].image.size)
                 /\ responses[r][1].image = Last(attempts[r])
              \/ /\ responses[r][1] = ErrorResponse(500, SizeLockError)
                 /\ Len(attempts[r]) = 25
                 /\ \A n \in 1..25 : ~WithinTarget(attempts[r][n].size)

C12_Witness ==
  \E r \in Reqs :
    /\ pngBuffer[r].kind = "linear" /\ pngBuffer[r].k = 100
    /\ pc[r] = "done"
    /\ Len(attempts[r]) = 25
    /\ Last(attempts[r]).size = 2000 * 82 * 100
    /\ responses[r] = << ErrorResponse(500, SizeLockError) >>

\* the state of request r that the handler's locals and its response hold
Locals(r) ==
  << pc[r], req[r], modelCalls[r], modelResponse[r], pngBuffer[r], width[r], quality[r], i[r],
     jpgBuffer[r], encodeCalls[r], attempts[r], errorLog[r], responses[r] >>

\* C14: however the requests interleave, each request's encodes are a
\* prefix of the encodes it makes when run alone, its response is the one
\* it sends when run alone, and no step of one request changes the width,
\* quality, buffers or response of another.
C14_IndependentInvocations ==
  /\ [](\A r \in Reqs :
          pngBuffer[r] # NoImage =>
            /\ IsPrefix(attempts[r], SoloAttempts(pngBuffer[r]))
            /\ pc[r] = "done" =>
                 /\ attempts[r] = SoloAttempts(pngBuffer[r])
                 /\ responses[r] = << SoloResponse(req[r], pngBuffer[r]) >>)
  /\ [][\A r1 \in Reqs : \A r2 \in Reqs :
          (r1 # r2 /\ Locals(r1)' # Locals(r1)) => Locals(r2)' = Locals(r2)]_vars

\* two requests on different sources are both in their loops, each part way
\* through its own sequence of attempts
C14_Witness ==
  \E r1 \in Reqs : \E r2 \in Reqs :
    /\ r1 # r2
    /\ pc[r1] = "awaitEncode" /\ pc[r2] = "awaitEncode"
    /\ pngBuffer[r1] # pngBuffer[r2]
    /\ Len(attempts[r1]) >= 2 /\ Len(attempts[r2]) >= 2
    /\ width[r1] # width[r2]

\* C15: every encode of a request takes the image the external model
\* returned as its source, and once that image is received no step
\* changes it.
C15_SourceImmutable ==
  /\ [](\A r \in Reqs : \A n \in 1..Len(attempts[r]) :
          attempts[r][n].src = pngBuffer[r])
  /\ [][\A r \in Reqs :
          pngBuffer[r] # NoImage => pngBuffer'[r] = pngBuffer[r]]_vars

C15_Witness ==
  \E r \in Reqs :
    /\ Len(attempts[r]) >= 3
    /\ attempts[r][3].src = pngBuffer[r]
    /\ attempts[r][3].size # attempts[r][2].size
    /\ attempts[r][2].size # attempts[r][1].size

\* the width and the quality of the iteration after the n-th encode of
\* request r: those of the next encode, or the loop's variables when the
\* n-th encode is the latest
NextWidth(r, n) ==
  IF n < Len(attempts[r]) THEN attempts[r][n + 1].width ELSE width[r]

NextQuality(r, n) ==
  IF n < Len(attempts[r]) THEN attempts[r][n + 1].quality ELSE quality[r]

\* C16: after an undersized encode at (w, q) the next iteration has width
\* w + 250 and quality min(q + 2, 98), so the oversized branch has not
\* acted in between.
C16_UndersizedStep ==
  \A r \in Reqs : \A n \in 1..Len(attempts[r]) :
    attempts[r][n].size < 1048576 =>
      /\ NextWidth(r, n) = attempts[r][n].width + 250
      /\ NextQuality(r, n) =
           (IF attempts[r][n].quality + 2 > 98 THEN 98 ELSE attempts[r][n].quality + 2)

\* one undersized encode below the cap and one at the cap
C16_Witness ==
  \E r \in Reqs : \E n \in 1..(Len(attempts[r]) - 1) : \E m \in 1..(Len(attempts[r]) - 1) :
    /\ attempts[r][n].size < 1048576
    /\ attempts[r][n].quality = 94
    /\ attempts[r][n + 1].quality = 96
    /\ attempts[r][m].size < 1048576
    /\ attempts[r][m].quality = 98
    /\ attempts[r][m + 1].quality = 98
    /\ attempts[r][m + 1].width = attempts[r][m].width + 250

\* C17: after an oversized encode at (w, q): if q > 85 the next iteration
\* has width w and quality q - 4, otherwise it has width max(w - 250, 2000)
\* and quality q.
C17_OversizedStep ==
  \A r \in Reqs : \A n \in 1..Len(attempts[r]) :
    attempts[r][n].size > 3145728 =>
      IF attempts[r][n].quality > 85
        THEN /\ NextQuality(r, n) = attempts[r][n].quality - 4
             /\ NextWidth(r, n) = attempts[r][n].width
        ELSE /\ NextQuality(r, n) = attempts[r][n].quality
             /\ NextWidth(r, n) =
                  (IF attempts[r][n].width - 250 < 2000 THEN 2000
                                                         ELSE attempts[r][n].width - 250)

\* a run with a quality step, a width step and a clamped width step
C17_Witness ==
  \E r \in Reqs : \E n \in 1..(Len(attempts[r]) - 1) : \E m \in 1..(Len(attempts[r]) - 1) :
    /\ attempts[r][n].size > 3145728
    /\ attempts[r][n].quality = 86
    /\ attempts[r][n + 1].quality = 82
    /\ attempts[r][n + 1].width = attempts[r][n].width
    /\ attempts[r][m].size > 3145728
    /\ attempts[r][m].quality = 82
    /\ attempts[r][m].width = 2050
    /\ attempts[r][m + 1].width = 2000

\* C18: an in-range encode is the last encode of its request: no further
\* encode call is made and the request is answered with that encode's bytes.
C18_StopsAtFirstInRange ==
  \A r \in Reqs : \A n \in 1..Len(attempts[r]) :
    WithinTarget(attempts[r][n].size) =>
      /\ n = Len(attempts[r])
      /\ encodeCalls[r] = n
      /\ pc[r] = "done"
      /\ Len(responses[r]) = 1
      /\ responses[r][1].status = 200
      /\ responses[r][1].image = attempts[r][n]

C18_Witness ==
  \E r \in Reqs :
    /\ Len(attempts[r]) \in 2..24
    /\ WithinTarget(Last(attempts[r]).size)
    /\ encodeCalls[r] = Len(attempts[r])
    /\ responses[r][1].image = Last(attempts[r])

\* the (width, quality) pairs the size functions are examined on: widths
\* from the floor to the largest width 25 iterations reach, qualities from
\* the floor to the ceiling
ProbeWidths == { 2000 + 50 * n : n \in 0..136 }
ProbeQualities == 80..98

\* the size does not decrease when the width or the quality increases
Monotone(img) ==
  \A w \in ProbeWidths : \A q \in ProbeQualities :
    /\ w + 50 <= 8800 => SizeOf(img, w, q) <= SizeOf(img, w + 50, q)
    /\ q + 1 <= 98 => SizeOf(img, w, q) <= SizeOf(img, w, q + 1)

\* some pair inside the clamp limits encodes to an in-range size
HasInRangePair(img) ==
  \E w \in ProbeWidths : \E q \in ProbeQualities : WithinTarget(SizeOf(img, w, q))

\* the search of request r has ended without an in-range encode
Unconverged(r) ==
  /\ pc[r] = "done"
  /\ attempts[r] # <<>>
  /\ ~WithinTarget(Last(attempts[r]).size)

NoOvershoot(img) ==
  \A w \in ProbeWidths : \A q \in ProbeQualities :
    /\ SizeOf(img, w, q) < 1048576 =>
         SizeOf(img, w + 250, IF q + 2 > 98 THEN 98 ELSE q + 2) <= 3145728
    /\ SizeOf(img, w, q) > 3145728 =>
         (IF q > 85
            THEN SizeOf(img, w, q - 4)
            ELSE SizeOf(img, IF w - 250 < 2000 THEN 2000 ELSE w - 250, q)) >= 1048576

\* some pair the search can reach (quality 82 or more, width up to 8800)
\* encodes to an in-range size
HasReachableInRangePair(img) ==
  \E w \in ProbeWidths : \E q \in 82..98 : WithinTarget(SizeOf(img, w, q))

PassesValidation(raw) ==
  /\ raw.hasFile
  /\ raw.generationMode = "MODEL_REFERENCE_BASED" => raw.hasSecondary
  /\ IsBackPose(raw) => raw.hasSecondary

\* C20: the external model is called at most once per request and only
\* for a request that passes validation; a request answered with status
\* 400 has made no external call and no encode, and encodes happen only
\* after the external call.
C20_ModelCalledOnceAfterValidation ==
  \A r \in Reqs :
    /\ modelCalls[r] <= 1
    /\ modelCalls[r] = 1 => PassesValidation(req[r])
    /\ encodeCalls[r] > 0 => modelCalls[r] = 1
    /\ pc[r] # "idle" /\ ~PassesValidation(req[r]) =>
         /\ pc[r] = "done"
         /\ Len(responses[r]) = 1
         /\ responses[r][1].status = 400
    /\ \A n \in 1..Len(responses[r]) :
         responses[r][n].status = 400 =>
           /\ modelCalls[r] = 0
           /\ encodeCalls[r] = 0
           /\ attempts[r] = <<>>
           /\ pngBuffer[r] = NoImage

C20_Witness ==
  \E r \in Reqs :
    /\ pc[r] = "done"
    /\ req[r].hasFile /\ ~req[r].hasSecondary /\ IsBackPose(req[r])
    /\ req[r].generationMode = "POSE_BASED"
    /\ Len(responses[r]) = 1
    /\ responses[r][1].status = 400
    /\ modelCalls[r] = 0
    /\ encodeCalls[r] = 0

\* C21: a request never has more than one response; it has exactly one
\* from the moment its handler has returned and none before; the step
\* that sends the response is the step in which the handler returns; and
\* once the response is sent nothing of the request changes any more.
C21_ExactlyOneResponse ==
  /\ [](\A r \in Reqs :
          /\ Len(responses[r]) <= 1
          /\ pc[r] = "done" <=> Len(responses[r]) = 1)
  /\ [][\A r \in Reqs :
          /\ responses[r]' # responses[r] =>
               /\ responses[r] = <<>>
               /\ Len(responses[r]') = 1
               /\ pc[r]' = "done"
          /\ Len(responses[r]) = 1 => Locals(r)' = Locals(r)]_vars

\* a request answered 200 after more than one encode, with that one response
C21_Witness ==
  \E r \in Reqs :
    /\ pc[r] = "done"
    /\ Len(attempts[r]) > 1
    /\ Len(responses[r]) = 1
    /\ responses[r][1].status = 200

\* encode n of request r came out oversized at width 2000 with quality <= 85
StuckAt(r, n) ==
  /\ n \in 1..Len(attempts[r])
  /\ attempts[r][n].width = 2000
  /\ attempts[r][n].quality <= 85
  /\ attempts[r][n].size > 3145728

\* C22: once an encode is oversized at width 2000 with quality <= 85, the
\* width and quality after its adjustment are the ones it used, every later
\* encode of the request is identical to it, the request can only end with
\* 25 encodes done and the size-constraint error as its response, and it
\* does end so.
C22_StuckState ==
  /\ [](\A r \in Reqs : \A n \in 1..Len(attempts[r]) :
          StuckAt(r, n) =>
            /\ NextWidth(r, n) = attempts[r][n].width
            /\ NextQuality(r, n) = attempts[r][n].quality
            /\ \A m \in n..Len(attempts[r]) : attempts[r][m] = attempts[r][n]
            /\ pc[r] = "done" =>
                 /\ Len(attempts[r]) = 25
                 /\ responses[r] = << ErrorResponse(500, SizeLockError) >>)
  /\ \A r \in {1} :
       (\E n \in 1..Len(attempts[r]) : StuckAt(r, n))
         ~> (/\ pc[r] = "done"
             /\ Len(attempts[r]) = 25
             /\ responses[r] = << ErrorResponse(500, SizeLockError) >>)

\* a request that got stuck before its last encode and has ended
C22_Witness ==
  \E r \in Reqs :
    /\ pc[r] = "done"
    /\ Len(attempts[r]) = 25
    /\ \E n \in 2..20 :
         /\ StuckAt(r, n)
         /\ ~StuckAt(r, n - 1)
         /\ attempts[r][25] = attempts[r][n]
    /\ responses[r] = << ErrorResponse(500, SizeLockError) >>

EvenQualities == { 82 + 2 * k : k \in 0..8 }

\* C23: once the loop is entered the quality is one of 82, 84, ..., 98, in
\* the loop's variable and in every encode made; so no encode is made at
\* quality 80 or 81, and the quality the directional adjustments leave
\* after any encode is never below 80, so that the quality clamp of the
\* hard limits leaves it as it is.
C23_QualityEven ==
  \A r \in Reqs :
    /\ encodeCalls[r] > 0 => quality[r] \in EvenQualities
    /\ \A n \in 1..Len(attempts[r]) :
         LET a == attempts[r][n]
             s == TooSmall(a.size, a.width, a.quality)
             b == TooBig(a.size, s.width, s.quality)
         IN  /\ a.quality \in EvenQualities
             /\ a.quality \notin {80, 81}
             /\ b.quality >= 80
             /\ HardLimits(b.width, b.quality).quality = b.quality
             /\ NextQuality(r, n) \in EvenQualities

\* the lowest quality is reached and used by an oversized encode, and a
\* quality off the descent 94, 90, 86, 82 is used as well
C23_Witness ==
  \E r \in Reqs : \E n, m \in 1..Len(attempts[r]) :
    /\ attempts[r][n].quality = 82
    /\ attempts[r][n].size > 3145728
    /\ NextQuality(r, n) = 82
    /\ attempts[r][m].quality = 84

\* the first k encodes of request r are made and all undersized
AllUndersized(r, k) ==
  /\ Len(attempts[r]) >= k
  /\ \A m \in 1..k : attempts[r][m].size < 1048576

\* C24: every encode, completed or awaited, has a width from 2000 to
\* 2800 + 24 * 250 = 8800, and an encode has width 8800 exactly when it is
\* the 25th and the 24 encodes before it were all undersized.
C24_WidthRange ==
  \A r \in Reqs :
    /\ \A n \in 1..Len(attempts[r]) :
         /\ 2000 <= attempts[r][n].width
         /\ attempts[r][n].width <= 2800 + 24 * 250
         /\ attempts[r][n].width = 8800 <=> (n = 25 /\ AllUndersized(r, 24))
    /\ pc[r] = "awaitEncode" =>
         /\ 2000 <= width[r]
         /\ width[r] <= 8800
         /\ width[r] = 8800 <=> (Len(attempts[r]) = 24 /\ AllUndersized(r, 24))

\* the 25th encode is made at width 8800 after 24 undersized encodes
C24_Witness ==
  \E r \in Reqs :
    /\ Len(attempts[r]) = 25
    /\ AllUndersized(r, 24)
    /\ attempts[r][25].width = 8800

\* the answer of the external model to request r has arrived and none of
\* its parts carries inline image data
AnsweredWithoutImage(r) ==
  /\ modelResponse[r].received
  /\ \A n \in 1..Len(modelResponse[r].parts) :
       modelResponse[r].parts[n].inlineData = NoImage

\* C25: a request whose answer from the external model has no part with
\* inline image data has ended with the one response 500 'No image
\* returned from Gemini.', without any encode issued or completed; and a
\* request that has issued an encode has received an answer with a part
\* carrying image data, the first such part being the source it encodes.
C25_NoImageNoEncode ==
  \A r \in Reqs :
    /\ AnsweredWithoutImage(r) =>
         /\ pc[r] = "done"
         /\ responses[r] = << ErrorResponse(500, "No image returned from Gemini.") >>
         /\ encodeCalls[r] = 0
         /\ attempts[r] = <<>>
         /\ pngBuffer[r] = NoImage
    /\ encodeCalls[r] > 0 =>
         /\ modelResponse[r].received
         /\ \E n \in 1..Len(modelResponse[r].parts) :
              /\ modelResponse[r].parts[n].inlineData # NoImage
              /\ modelResponse[r].parts[n].inlineData = pngBuffer[r]
              /\ \A m \in 1..(n - 1) : modelResponse[r].parts[m].inlineData = NoImage

\* an answer made of a text part only has been rejected
C25_Witness ==
  \E r \in Reqs :
    /\ AnsweredWithoutImage(r)
    /\ Len(modelResponse[r].parts) = 1
    /\ pc[r] = "done"
    /\ responses[r] = << ErrorResponse(500, "No image returned from Gemini.") >>
    /\ encodeCalls[r] = 0

BackPoseError == "Back pose requires SECOND reference image of same saree."

\* the pose or the pose note of request raw has 'back' or 'rear' in it, in
\* whatever case
MentionsBack(raw) ==
  \E field \in {raw.pose, raw.poseNote} :
    \E word \in { <<"b", "a", "c", "k">>, <<"r", "e", "a", "r">> } :
      \E n \in 1..(Len(field) - 3) :
        ToLowerCase(SubSeq(field, n, n + 3)) = word

\* C26: a request that mentions 'back' or 'rear' in its pose or pose note
\* and has no second image ends at once with one response of status 400
\* and no external call, that response being the back-pose error when the
\* mode check and the primary-image check let the request through; and a
\* request with a second image never gets the back-pose error.
C26_BackPoseNeedsSecondImage ==
  \A r \in Reqs : pc[r] # "idle" =>
    /\ MentionsBack(req[r]) /\ ~req[r].hasSecondary =>
         /\ pc[r] = "done"
         /\ modelCalls[r] = 0
         /\ Len(responses[r]) = 1
         /\ responses[r][1].status = 400
         /\ (req[r].hasFile /\ req[r].generationMode # "MODEL_REFERENCE_BASED") =>
              responses[r] = << ErrorResponse(400, BackPoseError) >>
    /\ req[r].hasSecondary =>
         \A n \in 1..Len(responses[r]) : responses[r][n].error # BackPoseError

\* a pose typed 'Back' without a second image is rejected by this check
C26_Witness ==
  \E r \in Reqs :
    /\ pc[r] = "done"
    /\ req[r].pose = <<"B", "a", "c", "k">>
    /\ req[r].poseNote = <<>>
    /\ ~req[r].hasSecondary
    /\ responses[r] = << ErrorResponse(400, BackPoseError) >>

ModeError == "Model reference image is required for this mode."

FileError == "Reference image is required."

\* C27: a request in MODEL_REFERENCE_BASED mode without a second image is
\* answered 400 with the mode error, whether or not it has a primary
\* image; any other request without a primary image is answered 400 with
\* 'Reference image is required.'; and the back-pose error is given only
\* to a request that passes both of these checks.
C27_ValidationOrder ==
  \A r \in Reqs : pc[r] # "idle" =>
    LET raw == req[r]
        failsMode == raw.generationMode = "MODEL_REFERENCE_BASED" /\ ~raw.hasSecondary
    IN  /\ failsMode => responses[r] = << ErrorResponse(400, ModeError) >>
        /\ ~failsMode /\ ~raw.hasFile =>
             responses[r] = << ErrorResponse(400, FileError) >>
        /\ \A n \in 1..Len(responses[r]) :
             /\ responses[r][n].error = BackPoseError => ~failsMode /\ raw.hasFile
             /\ responses[r][n].error = ModeError => failsMode
             /\ responses[r][n].error = FileError => ~failsMode /\ ~raw.hasFile

\* a request failing all three checks is answered with the mode error
C27_Witness ==
  \E r \in Reqs :
    /\ pc[r] = "done"
    /\ req[r].generationMode = "MODEL_REFERENCE_BASED"
    /\ ~req[r].hasSecondary
    /\ ~req[r].hasFile
    /\ MentionsBack(req[r])
    /\ responses[r] = << ErrorResponse(400, ModeError) >>

====
